---- MODULE Spec2Model ----
(***************************************************************************)
(* A model of mkqif.py: the CSVFormat class that converts the CSV rows of  *)
(* one financial institution into QIF text and statistics.                 *)
(*                                                                         *)
(* Text is modelled as a sequence of one-character strings, a CSV row as   *)
(* the sequence of its fields (what csv.reader yields), a date as a record *)
(* [year, month, day], and an amount as an integer number of hundredths    *)
(* ("3.50" is 350).                                                        *)
(***************************************************************************)
EXTENDS Integers, Sequences, FiniteSets, TLC

VARIABLES
    fmt,            \* the CSVFormat instance's descriptor attributes
    file_rows,      \* the rows get_csv_rows reads from the source file(s)
    cutoff_date,    \* convert_csv_to_qif's cutoff_date
    today,          \* convert_csv_to_qif's today (the effective date)
    csv_rows,       \* self.csv_rows
    qif_text,       \* self.qif_text: the sequence of QIF blocks
    stats,          \* self.stats
    pc,             \* "idle", "loop" (inside the for loop) or "raised"
    err,            \* the kind of exception that escaped, or "none"
    row_i,          \* number of rows the for loop has consumed
    balance, processed, valid, empty, ncols_mismatch,
    qif,            \* the local qif_text of convert_csv_to_qif
    runs,           \* completed calls of perform_conversion
    call,           \* arguments of a direct call of credit_debit / str2date
    ret,            \* result of that call
    fis             \* process_fis: its institutions, position and outputs

vars == <<fmt, file_rows, cutoff_date, today, csv_rows, qif_text, stats, pc,
          err, row_i, balance, processed, valid, empty, ncols_mismatch, qif,
          runs, call, ret, fis>>

-----------------------------------------------------------------------------
(* Bounds of the model.                                                    *)

MaxRows == 2
MaxRuns == 2
MaxJobs == 3

-----------------------------------------------------------------------------
(* Text helpers.                                                           *)

Digits == {"0", "1", "2", "3", "4", "5", "6", "7", "8", "9"}

DigitSeq == <<"0", "1", "2", "3", "4", "5", "6", "7", "8", "9">>

DigitVal(c) == (CHOOSE i \in 1..10 : DigitSeq[i] = c) - 1

IsDigits(s) == Len(s) > 0 /\ \A i \in 1..Len(s) : s[i] \in Digits

RECURSIVE ParseNat(_)
ParseNat(s) ==
    IF s = <<>> THEN 0
    ELSE ParseNat(SubSeq(s, 1, Len(s) - 1)) * 10 + DigitVal(s[Len(s)])

\* str.replace(' ', '')
RemoveSpaces(s) == SelectSeq(s, LAMBDA c : c # " ")

\* re.sub(r' +', ' ', s): every run of spaces becomes one space
RECURSIVE CollapseSpaces(_)
CollapseSpaces(s) ==
    IF Len(s) < 2 THEN s
    ELSE IF s[1] = " " /\ s[2] = " " THEN CollapseSpaces(Tail(s))
    ELSE <<s[1]>> \o CollapseSpaces(Tail(s))

\* str.split(sep) for a one-character separator
RECURSIVE SplitOn(_, _)
SplitOn(s, sep) ==
    IF \A i \in 1..Len(s) : s[i] # sep THEN <<s>>
    ELSE LET k == CHOOSE i \in 1..Len(s) :
                     s[i] = sep /\ \A j \in 1..(i - 1) : s[j] # sep
         IN  <<SubSeq(s, 1, k - 1)>> \o SplitOn(SubSeq(s, k + 1, Len(s)), sep)

\* re.match(pattern, s) for the literal patterns of the modelled descriptors:
\* the pattern matches at the start of s
re_match(pattern, s) ==
    Len(pattern) <= Len(s) /\ SubSeq(s, 1, Len(pattern)) = pattern

\* "{:02x}".format(ord(c)) for the characters of the modelled texts
HexTable ==
    <<  <<" ", "20">>, <<"-", "2d">>, <<".", "2e">>,
        <<"0", "30">>, <<"1", "31">>, <<"2", "32">>, <<"3", "33">>,
        <<"4", "34">>, <<"5", "35">>, <<"6", "36">>, <<"7", "37">>,
        <<"8", "38">>, <<"9", "39">>,
        <<"C", "43">>, <<"G", "47">>, <<"I", "49">>, <<"N", "4e">>,
        <<"R", "52">>, <<"S", "53">>, <<"X", "58">>,
        <<"a", "61">>, <<"b", "62">>, <<"c", "63">>, <<"x", "78">> >>

Hex(c) == HexTable[CHOOSE i \in 1..Len(HexTable) : HexTable[i][1] = c][2]

\* ":".join("{:02x}".format(ord(c)) for c in amount), as the list of codes
HexJoin(s) == [i \in 1..Len(s) |-> Hex(s[i])]

\* row[col] with a zero-based column
Field(row, col) == row[col + 1]

-----------------------------------------------------------------------------
(* Dates: datetime.strptime and CSVFormat.str2date.                        *)

\* date formats of the modelled descriptors: "%d-%m-%Y" and "%d-%m"
FmtDMY == <<"%d", "-", "%m", "-", "%Y">>

FmtDM == <<"%d", "-", "%m">>

\* the year strptime gives a date whose format has no year
SentinelYear == 1900

\* None, as returned by str2date
NoDate == [year |-> 0, month |-> 0, day |-> 0]

IsLeap(y) == (y % 4 = 0 /\ y % 100 # 0) \/ y % 400 = 0

DaysInMonth(y, m) ==
    IF m = 2 THEN (IF IsLeap(y) THEN 29 ELSE 28)
    ELSE IF m \in {4, 6, 9, 11} THEN 30 ELSE 31

\* what datetime.date(y, m, d) accepts
ValidDate(y, m, d) ==
    y >= 1 /\ m \in 1..12 /\ d >= 1 /\ d <= DaysInMonth(y, m)

\* the digits a strptime directive accepts
DirectiveOK(directive, part) ==
    /\ IsDigits(part)
    /\ IF directive = "%Y" THEN Len(part) = 4 ELSE Len(part) <= 2

\* datetime.datetime.strptime(date_str, date_format): [ok, year, month, day]
strptime(date_str, date_format) ==
    LET directives == SelectSeq(date_format, LAMBDA t : t # "-")
        parts == SplitOn(date_str, "-")
        shape == /\ Len(parts) = Len(directives)
                 /\ \A i \in 1..Len(parts) : DirectiveOK(directives[i], parts[i])
        Get(d, default) ==
            IF \E i \in 1..Len(directives) : directives[i] = d
            THEN ParseNat(parts[CHOOSE i \in 1..Len(directives) : directives[i] = d])
            ELSE default
    IN  IF ~shape THEN [ok |-> FALSE, year |-> 0, month |-> 0, day |-> 0]
        ELSE LET y == Get("%Y", SentinelYear)
                 m == Get("%m", 1)
                 d == Get("%d", 1)
             IN  [ok |-> ValidDate(y, m, d), year |-> y, month |-> m, day |-> d]

\* InferYear with the reference month itself counted as last year's
InferYear_Strict(date, now) ==
    IF date.year = SentinelYear
    THEN (IF date.month < now.month THEN now.year ELSE now.year - 1)
    ELSE date.year

\* the year str2date gives the parsed date
InferYear(date, now) ==
    IF date.year = SentinelYear
    THEN (IF date.month <= now.month THEN now.year ELSE now.year - 1)
    ELSE date.year

\* CSVFormat.str2date(date_str, now): a date, or NoDate for None
str2date(f, date_str, now) ==
    LET date == strptime(date_str, f.date_format)
    IN  IF ~date.ok THEN NoDate
        ELSE LET year == InferYear(date, now)
             IN  IF ValidDate(year, date.month, date.day)
                 THEN [year |-> year, month |-> date.month, day |-> date.day]
                 ELSE NoDate

\* a < b on datetime.date
DateLT(a, b) ==
    \/ a.year < b.year
    \/ a.year = b.year /\ a.month < b.month
    \/ a.year = b.year /\ a.month = b.month /\ a.day < b.day

\* InWindow with both bounds exclusive
InWindow_Exclusive(row_date, cutoff, now) ==
    DateLT(cutoff, row_date) /\ DateLT(row_date, now)

\* the negation of line 334's test: the row is inside the date window
InWindow(row_date, cutoff, now) ==
    ~(DateLT(row_date, cutoff) \/ DateLT(now, row_date))

-----------------------------------------------------------------------------
(* Amounts: locale.atof and CSVFormat.credit_debit.                        *)

\* locale.atof(s), in hundredths, for texts of the form [-]digits[.d[d]];
\* any other text of the model (letters, the empty text) is a ValueError
atof(s) ==
    LET neg == Len(s) > 0 /\ s[1] = "-"
        body == IF neg THEN Tail(s) ELSE s
        parts == SplitOn(body, ".")
        sign == IF neg THEN -1 ELSE 1
        bad == [ok |-> FALSE, val |-> 0]
    IN  IF Len(parts) = 1 /\ IsDigits(parts[1])
        THEN [ok |-> TRUE, val |-> sign * ParseNat(parts[1]) * 100]
        ELSE IF /\ Len(parts) = 2 /\ IsDigits(parts[1]) /\ IsDigits(parts[2])
                /\ Len(parts[2]) <= 2
        THEN [ok |-> TRUE,
              val |-> sign * (ParseNat(parts[1]) * 100
                              + (IF Len(parts[2]) = 1 THEN 10 ELSE 1)
                                * ParseNat(parts[2]))]
        ELSE bad

\* DebitAmount without the test for the empty text
DebitAmount_NoBlank(amount_str) == atof(amount_str)

\* line 263: amount = 0 if amount == "" else locale.atof(amount)
DebitAmount(amount_str) ==
    IF amount_str = <<>> THEN [ok |-> TRUE, val |-> 0] ELSE atof(amount_str)

\* PatternSign trusting the sign of the raw amount of a credit
PatternSign_NoFlip(amount, matched) ==
    IF matched THEN amount ELSE (IF amount < 0 THEN amount ELSE -amount)

\* lines 265-268: the sign rule of a descriptor with a credit_regexp
PatternSign(amount, matched) ==
    IF matched THEN (IF amount >= 0 THEN amount ELSE -amount)
    ELSE (IF amount < 0 THEN amount ELSE -amount)

\* line 270: debit and credit in the same column
SameColumnSign(amount, debit_is_negative) ==
    IF debit_is_negative THEN amount ELSE -amount

\* line 274: the credit column holds a credit value
HasCreditValue(f, credit) == credit # <<>> /\ f.credit_col # f.payee_col

\* line 277: if fcredit < 0: fcredit = -fcredit
ForcePositive(fcredit) == IF fcredit < 0 THEN -fcredit ELSE fcredit

\* IsCredit without the test for zero
IsCredit_Always(fcredit) == TRUE

\* line 278: a credit of 0 is not a credit
IsCredit(fcredit) == fcredit # 0

\* line 282: the sign derived from the debit amount alone
Fallback(amount) == IF amount > 0 THEN -amount ELSE amount

Returns(v) == [kind |-> "ok", value |-> v, val |-> <<>>]

Raises(kind, hex) == [kind |-> kind, value |-> 0, val |-> hex]

\* the except clause of credit_debit: val is built from the characters of
\* amount, which is the debit text while the debit is being parsed and a
\* number afterwards; iterating over a number is a TypeError
HandleValueError(amount_is_text, amount_str) ==
    IF amount_is_text THEN Raises("MQException", HexJoin(amount_str))
    ELSE Raises("TypeError", <<>>)

\* CSVFormat.credit_debit(row): the amount returned or the exception raised
credit_debit(f, row) ==
    IF f.debit_col >= Len(row) \/ f.credit_col >= Len(row)
    THEN Raises("IndexError", <<>>)
    ELSE
    LET amount_str == RemoveSpaces(Field(row, f.debit_col))
        credit == Field(row, f.credit_col)
        parsed == DebitAmount(amount_str)
        amount == parsed.val
    IN  IF ~parsed.ok THEN HandleValueError(TRUE, amount_str)
        ELSE IF f.credit_regexp # <<>>
        THEN Returns(PatternSign(amount, re_match(f.credit_regexp, credit)))
        ELSE IF f.debit_col = f.credit_col
        THEN Returns(SameColumnSign(amount, f.debit_is_negative))
        ELSE IF HasCreditValue(f, credit)
        THEN LET c == atof(RemoveSpaces(credit))
             IN  IF ~c.ok THEN HandleValueError(FALSE, amount_str)
                 ELSE IF IsCredit(ForcePositive(c.val))
                 THEN Returns(ForcePositive(c.val))
                 ELSE Returns(Fallback(amount))
        ELSE Returns(Fallback(amount))

-----------------------------------------------------------------------------
(* The descriptors, texts and rows the model draws its inputs from.        *)

\* CSVFormat.__init__'s defaults
Default ==
    [type |-> "CCard", date_col |-> 0, payee_col |-> 1, debit_col |-> 2,
     credit_col |-> 3, ncols |-> 4, date_format |-> FmtDMY,
     credit_regexp |-> <<>>, ignore_regexp |-> <<>>, ignore_col |-> 1,
     debit_is_negative |-> TRUE]

Formats ==
    { Default,
      \* rows whose payee starts with IGN are ignored
      [Default EXCEPT !.ignore_regexp = <<"I", "G", "N">>],
      \* a credit flag in its own column
      [Default EXCEPT !.credit_regexp = <<"C", "R">>,
                      !.debit_is_negative = FALSE],
      \* a credit flag in the payee column
      [Default EXCEPT !.credit_regexp = <<"C", "R">>, !.credit_col = 1],
      \* a credit pattern tested on the debit column itself
      [Default EXCEPT !.credit_regexp = <<"-">>, !.credit_col = 2],
      \* debit and credit in the same column, of three
      [Default EXCEPT !.type = "Bank", !.credit_col = 2, !.ncols = 3],
      [Default EXCEPT !.credit_col = 2, !.debit_is_negative = FALSE],
      \* the credit column is the payee column, with no pattern
      [Default EXCEPT !.credit_col = 1],
      \* dates without a year
      [Default EXCEPT !.date_format = FmtDM, !.type = "Bank"] }

D(y, m, d) == [year |-> y, month |-> m, day |-> d]

\* (cutoff_date, effective_date) pairs
Windows == { <<D(2024, 3, 8), D(2024, 3, 15)>> }

Txt_Empty == <<>>
Txt_Space == <<" ">>
Txt_5 == <<"5">>
Txt_Neg5 == <<"-", "5">>
Txt_3_50 == <<"3", ".", "5", "0">>
Txt_1_0 == <<"1", " ", "0">>
Txt_0 == <<"0">>
Txt_7 == <<"7">>
Txt_Neg7 == <<"-", "7">>
Txt_abc == <<"a", "b", "c">>
Txt_x == <<"x">>
Txt_CR == <<"C", "R">>
Txt_X == <<"X">>
Txt_CRX == <<"C", "R", " ", "X">>
Txt_IGN == <<"I", "G", "N">>
Txt_Shop == <<"S", " ", " ", "X">>

Date_07_03_2024 == <<"0", "7", "-", "0", "3", "-", "2", "0", "2", "4">>
Date_08_03_2024 == <<"0", "8", "-", "0", "3", "-", "2", "0", "2", "4">>
Date_15_03_2024 == <<"1", "5", "-", "0", "3", "-", "2", "0", "2", "4">>
Date_16_03_2024 == <<"1", "6", "-", "0", "3", "-", "2", "0", "2", "4">>
Date_31_02_2024 == <<"3", "1", "-", "0", "2", "-", "2", "0", "2", "4">>
Date_29_02_2024 == <<"2", "9", "-", "0", "2", "-", "2", "0", "2", "4">>
Date_10_03_1900 == <<"1", "0", "-", "0", "3", "-", "1", "9", "0", "0">>
Date_10_04_1900 == <<"1", "0", "-", "0", "4", "-", "1", "9", "0", "0">>
Date_10_03 == <<"1", "0", "-", "0", "3">>
Date_10_04 == <<"1", "0", "-", "0", "4">>
Date_29_02 == <<"2", "9", "-", "0", "2">>
Date_1_3 == <<"1", "-", "3">>
Date_31_12 == <<"3", "1", "-", "1", "2">>

\* the rows of a source file
RowMenu ==
    { <<Date_08_03_2024, Txt_Shop, Txt_3_50, Txt_Empty>>,
      <<Date_07_03_2024, Txt_X, Txt_5, Txt_Empty>>,
      <<Date_15_03_2024, Txt_CRX, Txt_Neg5, Txt_7>>,
      <<Date_16_03_2024, Txt_X, Txt_5, Txt_Empty>>,
      <<Date_15_03_2024, Txt_X, Txt_abc, Txt_Empty>>,
      <<Date_07_03_2024, Txt_X, Txt_abc, Txt_Empty>>,
      <<Date_08_03_2024, Txt_X, Txt_Space, Txt_x>>,
      <<Date_31_02_2024, Txt_X, Txt_5, Txt_Empty>>,
      <<Date_10_03, Txt_X, Txt_1_0, Txt_0>>,
      <<Date_08_03_2024, Txt_IGN, Txt_5, Txt_Empty>>,
      <<Date_15_03_2024, Txt_X, Txt_Neg5>>,
      <<Txt_x>>,
      <<>> }

RowSeqs == UNION { [1..n -> RowMenu] : n \in 0..MaxRows }

DebitTexts ==
    { Txt_Empty, Txt_Space, Txt_5, Txt_Neg5, Txt_3_50, Txt_1_0, Txt_0, Txt_abc }

CreditTexts ==
    { Txt_Empty, Txt_Space, Txt_0, Txt_7, Txt_Neg7, Txt_CR, Txt_CRX, Txt_x }

DateTexts ==
    { Date_07_03_2024, Date_15_03_2024, Date_31_02_2024, Date_29_02_2024,
      Date_10_03_1900, Date_10_04_1900, Date_10_03, Date_10_04, Date_29_02,
      Date_1_3, Date_31_12, Txt_Empty, Txt_x }

\* reference dates of a direct call of str2date
Nows == { D(2024, 3, 15), D(2024, 4, 1), D(2023, 12, 31), D(2025, 1, 1) }

\* a row of f's layout holding the given texts
MkRow(f, date, payee, debit, credit) ==
    [i \in 1..f.ncols |->
        IF i - 1 = f.debit_col THEN debit
        ELSE IF i - 1 = f.credit_col THEN credit
        ELSE IF i - 1 = f.payee_col THEN payee
        ELSE IF i - 1 = f.date_col THEN date
        ELSE <<>>]

-----------------------------------------------------------------------------
(* CSVFormat.convert_csv_to_qif and perform_conversion.                    *)

\* self.stats = None
NoStats ==
    [valid |-> -1, processed |-> -1, skipped |-> -1, balance |-> 0,
     empty |-> -1, ncols_mismatch |-> -1]

NoError == Raises("none", <<>>)

\* the row the for loop is at
CurRow == csv_rows[row_i + 1]

\* lines 322-340 on one row: what the loop body does with it
Outcome(f, row, cutoff, now) ==
    IF f.ignore_regexp # <<>> /\ f.ignore_col >= Len(row) THEN "IndexError"
    ELSE IF f.ignore_regexp # <<>>
            /\ re_match(f.ignore_regexp, Field(row, f.ignore_col))
    THEN "ignored"
    ELSE IF Len(row) = 0 THEN "empty"
    ELSE IF Len(row) # f.ncols THEN "ncols_mismatch"
    ELSE IF f.date_col >= Len(row) \/ f.payee_col >= Len(row) THEN "IndexError"
    ELSE LET row_date == str2date(f, Field(row, f.date_col), now)
         IN  IF row_date = NoDate THEN "baddate"
             ELSE IF ~InWindow(row_date, cutoff, now) THEN "skipped"
             ELSE LET amount == credit_debit(f, row)
                  IN  IF amount.kind = "ok" THEN "processed" ELSE amount.kind

\* line 339: one QIF block; D is the date strftime prints, T the amount
Block(f, row_date, amount, payee) ==
    [type |-> f.type, D |-> row_date, T |-> amount, P |-> payee]

InLoop(outcome) ==
    /\ pc = "loop"
    /\ row_i < Len(csv_rows)
    /\ Outcome(fmt, CurRow, cutoff_date, today) = outcome

\* the institution names of the registry CSVFormat.formats
Names == {"A", "B"}

\* process_fis has not been called
NoBatch ==
    [jobs |-> <<>>, k |-> 0, phase |-> "none", delete_source |-> FALSE,
     insts |-> [n \in Names |-> [qif_text |-> <<>>, stats |-> NoStats]],
     files |-> [n \in Names |-> [job |-> 0, text |-> <<>>]],
     shown |-> <<>>, deleted |-> {}]

Inputs == <<fmt, file_rows, cutoff_date, today, call, ret, fis>>

\* perform_conversion with the counters, balance and text kept from the
\* previous run
perform_conversion_NoReset ==
    /\ pc = "idle"
    /\ runs < MaxRuns
    /\ call = <<>>
    /\ csv_rows' = file_rows
    /\ row_i' = 0
    /\ pc' = "loop"
    /\ UNCHANGED <<Inputs, qif_text, stats, err, runs, balance, processed,
                   valid, empty, ncols_mismatch, qif>>

\* perform_conversion up to the for loop: the rows are read, the locals of
\* convert_csv_to_qif are initialised
perform_conversion ==
    /\ pc = "idle"
    /\ runs < MaxRuns
    /\ call = <<>>
    /\ csv_rows' = file_rows
    /\ balance' = 0 /\ processed' = 0 /\ valid' = 0 /\ empty' = 0
    /\ ncols_mismatch' = 0 /\ qif' = <<>>
    /\ row_i' = 0
    /\ pc' = "loop"
    /\ UNCHANGED <<Inputs, qif_text, stats, err, runs>>

\* line 324: the row matches ignore_regexp
RowIgnored ==
    /\ InLoop("ignored")
    /\ row_i' = row_i + 1
    /\ UNCHANGED <<Inputs, csv_rows, qif_text, stats, pc, err, balance,
                   processed, valid, empty, ncols_mismatch, qif, runs>>

\* line 325
RowEmpty ==
    /\ InLoop("empty")
    /\ empty' = empty + 1
    /\ row_i' = row_i + 1
    /\ UNCHANGED <<Inputs, csv_rows, qif_text, stats, pc, err, balance,
                   processed, valid, ncols_mismatch, qif, runs>>

\* lines 326-327
RowMismatch ==
    /\ InLoop("ncols_mismatch")
    /\ ncols_mismatch' = ncols_mismatch + 1
    /\ row_i' = row_i + 1
    /\ UNCHANGED <<Inputs, csv_rows, qif_text, stats, pc, err, balance,
                   processed, valid, empty, qif, runs>>

\* RowBadDate without the count
RowBadDate_NoCount ==
    /\ InLoop("baddate")
    /\ row_i' = row_i + 1
    /\ UNCHANGED <<Inputs, csv_rows, qif_text, stats, pc, err, balance,
                   processed, valid, empty, ncols_mismatch, qif, runs>>

\* lines 329-332: the date does not parse
RowBadDate ==
    /\ InLoop("baddate")
    /\ empty' = empty + 1
    /\ row_i' = row_i + 1
    /\ UNCHANGED <<Inputs, csv_rows, qif_text, stats, pc, err, balance,
                   processed, valid, ncols_mismatch, qif, runs>>

\* lines 333-334: a valid row outside the date window
RowSkipped ==
    /\ InLoop("skipped")
    /\ valid' = valid + 1
    /\ row_i' = row_i + 1
    /\ UNCHANGED <<Inputs, csv_rows, qif_text, stats, pc, err, balance,
                   processed, empty, ncols_mismatch, qif, runs>>

\* RowProcessed with the new block put before the text so far
RowProcessed_Prepend ==
    /\ InLoop("processed")
    /\ LET row_date == str2date(fmt, Field(CurRow, fmt.date_col), today)
           payee == CollapseSpaces(Field(CurRow, fmt.payee_col))
           amount == credit_debit(fmt, CurRow).value
       IN  /\ valid' = valid + 1
           /\ balance' = balance + amount
           /\ processed' = processed + 1
           /\ qif' = <<Block(fmt, row_date, amount, payee)>> \o qif
    /\ row_i' = row_i + 1
    /\ UNCHANGED <<Inputs, csv_rows, qif_text, stats, pc, err, empty,
                   ncols_mismatch, runs>>

\* lines 333-340: a valid row inside the date window
RowProcessed ==
    /\ InLoop("processed")
    /\ LET row_date == str2date(fmt, Field(CurRow, fmt.date_col), today)
           payee == CollapseSpaces(Field(CurRow, fmt.payee_col))
           amount == credit_debit(fmt, CurRow).value
       IN  /\ valid' = valid + 1
           /\ balance' = balance + amount
           /\ processed' = processed + 1
           /\ qif' = Append(qif, Block(fmt, row_date, amount, payee))
    /\ row_i' = row_i + 1
    /\ UNCHANGED <<Inputs, csv_rows, qif_text, stats, pc, err, empty,
                   ncols_mismatch, runs>>

\* RowAmountError with the error tolerated like a date error
RowAmountError_Continue ==
    /\ pc = "loop"
    /\ row_i < Len(csv_rows)
    /\ Outcome(fmt, CurRow, cutoff_date, today) \in {"MQException", "TypeError"}
    /\ valid' = valid + 1
    /\ row_i' = row_i + 1
    /\ UNCHANGED <<Inputs, csv_rows, qif_text, stats, pc, err, balance,
                   processed, empty, ncols_mismatch, qif, runs>>

\* line 336: credit_debit raises; valid has been incremented at line 333
RowAmountError ==
    /\ pc = "loop"
    /\ row_i < Len(csv_rows)
    /\ Outcome(fmt, CurRow, cutoff_date, today) \in {"MQException", "TypeError"}
    /\ valid' = valid + 1
    /\ pc' = "raised"
    /\ err' = credit_debit(fmt, CurRow)
    /\ UNCHANGED <<Inputs, csv_rows, qif_text, stats, row_i, balance,
                   processed, empty, ncols_mismatch, qif, runs>>

\* line 323: row[self.ignore_col] does not exist
RowIndexError ==
    /\ InLoop("IndexError")
    /\ pc' = "raised"
    /\ err' = Raises("IndexError", <<>>)
    /\ UNCHANGED <<Inputs, csv_rows, qif_text, stats, row_i, balance,
                   processed, valid, empty, ncols_mismatch, qif, runs>>

\* lines 341-343 and 391: the loop is over, stats and qif_text are stored
FinishConversion ==
    /\ pc = "loop"
    /\ row_i = Len(csv_rows)
    /\ stats' = [valid |-> valid, processed |-> processed,
                 skipped |-> valid - processed, balance |-> balance,
                 empty |-> empty, ncols_mismatch |-> ncols_mismatch]
    /\ qif_text' = qif
    /\ pc' = "idle"
    /\ runs' = runs + 1
    /\ UNCHANGED <<Inputs, csv_rows, err, row_i, balance, processed, valid,
                   empty, ncols_mismatch, qif>>

\* the instance after __init__, before any conversion
Constructed ==
    /\ csv_rows = <<>> /\ qif_text = <<>> /\ stats = NoStats
    /\ pc = "idle" /\ err = NoError /\ row_i = 0
    /\ balance = 0 /\ processed = 0 /\ valid = 0 /\ empty = 0
    /\ ncols_mismatch = 0 /\ qif = <<>> /\ runs = 0

Init ==
    /\ fmt \in Formats
    /\ file_rows \in RowSeqs
    /\ \E w \in Windows : cutoff_date = w[1] /\ today = w[2]
    /\ call = <<>> /\ ret = <<>>
    /\ fis = NoBatch
    /\ Constructed

Next ==
    \/ perform_conversion
    \/ RowIgnored
    \/ RowEmpty
    \/ RowMismatch
    \/ RowBadDate
    \/ RowSkipped
    \/ RowProcessed
    \/ RowAmountError
    \/ RowIndexError
    \/ FinishConversion

Spec == Init /\ [][Next]_vars

-----------------------------------------------------------------------------
(* Direct calls of credit_debit on one row.                                *)

InitCreditDebit ==
    /\ fmt \in Formats
    /\ \E debit \in DebitTexts, credit \in CreditTexts :
          call = <<MkRow(fmt, Date_15_03_2024, Txt_X, debit, credit)>>
    /\ ret = <<>>
    /\ fis = NoBatch
    /\ file_rows = <<>>
    /\ \E w \in Windows : cutoff_date = w[1] /\ today = w[2]
    /\ Constructed

CallCreditDebit ==
    /\ call # <<>> /\ ret = <<>>
    /\ ret' = <<credit_debit(fmt, call[1])>>
    /\ UNCHANGED <<fmt, file_rows, cutoff_date, today, csv_rows, qif_text,
                   stats, pc, err, row_i, balance, processed, valid, empty,
                   ncols_mismatch, qif, runs, call, fis>>

NextCreditDebit == CallCreditDebit

SpecCreditDebit == InitCreditDebit /\ [][NextCreditDebit]_vars

-----------------------------------------------------------------------------
(* Direct calls of str2date on one date text and reference date.           *)

InitStr2date ==
    /\ fmt \in Formats
    /\ \E date_str \in DateTexts, now \in Nows :
          call = <<[date_str |-> date_str, now |-> now]>>
    /\ ret = <<>>
    /\ fis = NoBatch
    /\ file_rows = <<>>
    /\ \E w \in Windows : cutoff_date = w[1] /\ today = w[2]
    /\ Constructed

CallStr2date ==
    /\ call # <<>> /\ ret = <<>>
    /\ ret' = <<str2date(fmt, call[1].date_str, call[1].now)>>
    /\ UNCHANGED <<fmt, file_rows, cutoff_date, today, csv_rows, qif_text,
                   stats, pc, err, row_i, balance, processed, valid, empty,
                   ncols_mismatch, qif, runs, call, fis>>

NextStr2date == CallStr2date

SpecStr2date == InitStr2date /\ [][NextStr2date]_vars

-----------------------------------------------------------------------------
(* process_fis: the institutions of the command line converted in order.   *)

\* params.institutions: the CSVFormat instance of each name
Institutions ==
    [n \in Names |->
        IF n = "A" THEN Default
        ELSE [Default EXCEPT !.type = "Bank",
                             !.ignore_regexp = <<"I", "G", "N">>]]

\* the rows of the source files of the command line
File_Good ==
    << <<Date_08_03_2024, Txt_Shop, Txt_3_50, Txt_Empty>>,
       <<Date_15_03_2024, Txt_CRX, Txt_Neg5, Txt_7>> >>

File_BadAmount ==
    << <<Date_08_03_2024, Txt_Shop, Txt_3_50, Txt_Empty>>,
       <<Date_15_03_2024, Txt_X, Txt_abc, Txt_Empty>>,
       <<Date_15_03_2024, Txt_CRX, Txt_Neg5, Txt_7>> >>

File_Anomalies ==
    << <<Date_08_03_2024, Txt_IGN, Txt_5, Txt_Empty>>,
       <<Date_07_03_2024, Txt_X, Txt_5, Txt_Empty>>,
       <<Date_15_03_2024, Txt_X, Txt_Neg5>>,
       <<Date_31_02_2024, Txt_X, Txt_5, Txt_Empty>>,
       <<>> >>

Files == { File_Good, File_BadAmount, File_Anomalies }

\* nf_dict: the (name, file) pairs process_fis goes through
Jobs == [name : Names, file : Files]

JobSeqs == UNION { [1..n -> Jobs] : n \in 0..MaxJobs }

\* the institution process_fis is at
CurJob == fis.jobs[fis.k]

\* lines 502-506 and 389-391: the next institution's instance is looked up
\* and perform_conversion called on it: its rows are read and the locals of
\* convert_csv_to_qif initialised
BatchNext ==
    /\ fis.phase = "next"
    /\ fis.k < Len(fis.jobs)
    /\ LET job == fis.jobs[fis.k + 1]
           inst == fis.insts[job.name]
       IN  /\ fmt' = Institutions[job.name]
           /\ file_rows' = job.file
           /\ csv_rows' = job.file
           /\ qif_text' = inst.qif_text
           /\ stats' = inst.stats
    /\ balance' = 0 /\ processed' = 0 /\ valid' = 0 /\ empty' = 0
    /\ ncols_mismatch' = 0 /\ qif' = <<>>
    /\ row_i' = 0
    /\ pc' = "loop"
    /\ err' = NoError
    /\ fis' = [fis EXCEPT !.k = fis.k + 1, !.phase = "converting"]
    /\ UNCHANGED <<cutoff_date, today, runs, call, ret>>

\* lines 507-513: the conversion returned; output_qif writes the text to the
\* institution's file unless it is empty, display_stats prints the stats,
\* the source is deleted when delete_source is set
BatchOutput ==
    /\ fis.phase = "converting"
    /\ pc = "idle"
    /\ fis' = [fis EXCEPT
          !.phase = "next",
          !.insts[CurJob.name] = [qif_text |-> qif_text, stats |-> stats],
          !.files[CurJob.name] =
              IF qif_text # <<>> THEN [job |-> fis.k, text |-> qif_text] ELSE @,
          !.shown = Append(@, [job |-> fis.k, name |-> CurJob.name,
                               stats |-> stats]),
          !.deleted = IF fis.delete_source THEN @ \cup {fis.k} ELSE @]
    /\ UNCHANGED <<fmt, file_rows, cutoff_date, today, csv_rows, qif_text,
                   stats, pc, err, row_i, balance, processed, valid, empty,
                   ncols_mismatch, qif, runs, call, ret>>

\* BatchExit with the error reported and the next institution gone on to
BatchExit_Continue ==
    /\ fis.phase = "converting"
    /\ pc = "raised"
    /\ err.kind = "MQException"
    /\ fis' = [fis EXCEPT !.phase = "next"]
    /\ UNCHANGED <<fmt, file_rows, cutoff_date, today, csv_rows, qif_text,
                   stats, pc, err, row_i, balance, processed, valid, empty,
                   ncols_mismatch, qif, runs, call, ret>>

\* lines 518-521: MQException is caught, reported, and sys.exit(1) called
BatchExit ==
    /\ fis.phase = "converting"
    /\ pc = "raised"
    /\ err.kind = "MQException"
    /\ fis' = [fis EXCEPT !.phase = "exited"]
    /\ UNCHANGED <<fmt, file_rows, cutoff_date, today, csv_rows, qif_text,
                   stats, pc, err, row_i, balance, processed, valid, empty,
                   ncols_mismatch, qif, runs, call, ret>>

\* lines 514 and 518 catch neither IndexError nor TypeError: the exception
\* leaves process_fis and ends the program
BatchCrash ==
    /\ fis.phase = "converting"
    /\ pc = "raised"
    /\ err.kind \in {"IndexError", "TypeError"}
    /\ fis' = [fis EXCEPT !.phase = "crashed"]
    /\ UNCHANGED <<fmt, file_rows, cutoff_date, today, csv_rows, qif_text,
                   stats, pc, err, row_i, balance, processed, valid, empty,
                   ncols_mismatch, qif, runs, call, ret>>

InitBatch ==
    /\ \E jobs \in JobSeqs, del \in BOOLEAN :
          fis = [NoBatch EXCEPT !.jobs = jobs, !.phase = "next",
                                !.delete_source = del]
    /\ fmt = Default
    /\ file_rows = <<>>
    /\ \E w \in Windows : cutoff_date = w[1] /\ today = w[2]
    /\ call = <<>> /\ ret = <<>>
    /\ Constructed

NextBatch ==
    \/ BatchNext
    \/ RowIgnored
    \/ RowEmpty
    \/ RowMismatch
    \/ RowBadDate
    \/ RowSkipped
    \/ RowProcessed
    \/ RowAmountError
    \/ RowIndexError
    \/ FinishConversion
    \/ BatchOutput
    \/ BatchExit
    \/ BatchCrash

SpecBatch == InitBatch /\ [][NextBatch]_vars


-----------------------------------------------------------------------------
(* Definitions the properties share.                                       *)

Abs(n) == IF n < 0 THEN -n ELSE n

\* a date as a number that orders dates
DateOrd(d) == d.year * 10000 + d.month * 100 + d.day

\* the ignore filter drops the row
Dropped(f, row) ==
    /\ f.ignore_regexp # <<>>
    /\ f.ignore_col < Len(row)
    /\ re_match(f.ignore_regexp, Field(row, f.ignore_col))

NonIgnoredCount(f, rows) ==
    Cardinality({ i \in 1..Len(rows) : ~Dropped(f, rows[i]) })

\* the loop is at a row
AtRow == pc = "loop" /\ row_i < Len(csv_rows)

\* the row is not dropped, has ncols fields and a date that parses
DatedRow(f, row, now) ==
    /\ ~Dropped(f, row)
    /\ Len(row) = f.ncols
    /\ str2date(f, Field(row, f.date_col), now) # NoDate

RowDate(f, row, now) == str2date(f, Field(row, f.date_col), now)

InsideWindow(d) ==
    DateOrd(cutoff_date) <= DateOrd(d) /\ DateOrd(d) <= DateOrd(today)

\* the debit text of the row, spaces removed
DebitText(f, row) == RemoveSpaces(Field(row, f.debit_col))

NonNumericDebit(f, row) ==
    DebitText(f, row) # <<>> /\ ~atof(DebitText(f, row)).ok

\* the raw debit amount of a row whose debit text is blank or numeric
RawDebit(f, row) ==
    IF DebitText(f, row) = <<>> THEN 0 ELSE atof(DebitText(f, row)).val

DebitParses(f, row) == DebitText(f, row) = <<>> \/ atof(DebitText(f, row)).ok

\* rule d is reached with a credit field to parse
RuleD(f, row) ==
    /\ f.credit_regexp = <<>>
    /\ f.debit_col # f.credit_col
    /\ f.credit_col # f.payee_col
    /\ Field(row, f.credit_col) # <<>>

CreditValue(f, row) == atof(RemoveSpaces(Field(row, f.credit_col)))

-----------------------------------------------------------------------------
(* C1. Row-count law: once a conversion run has completed, the stored      *)
(* statistics satisfy valid = processed + skipped, and valid + empty +     *)
(* ncols_mismatch is the number of input rows the ignore filter did not    *)
(* drop.                                                                   *)
C1_RowCountLaw ==
    stats # NoStats =>
        /\ stats.valid = stats.processed + stats.skipped
        /\ stats.valid + stats.empty + stats.ncols_mismatch
               = NonIgnoredCount(fmt, csv_rows)

\* a completed run over a dropped row and a row whose date does not parse
C1_Witness ==
    /\ pc = "idle" /\ runs >= 1
    /\ Len(csv_rows) = 2
    /\ NonIgnoredCount(fmt, csv_rows) = 1
    /\ stats.empty = 1
    /\ \E i \in 1..2 : /\ Len(csv_rows[i]) = fmt.ncols
                       /\ ~Dropped(fmt, csv_rows[i])
                       /\ RowDate(fmt, csv_rows[i], today) = NoDate

(* C2, as stated. Date-window boundary: a row with the expected column     *)
(* count and a parseable date produces an output record if and only if     *)
(* cutoff_date <= row date <= effective_date; outside the window it        *)
(* produces none and adds 1 to valid and 0 to processed.                   *)
C2_AsStated ==
    [][ (AtRow /\ DatedRow(fmt, CurRow, today)) =>
          LET inside == InsideWindow(RowDate(fmt, CurRow, today))
          IN  /\ (Len(qif') = Len(qif) + 1) <=> inside
              /\ ~inside => (valid' = valid + 1 /\ processed' = processed)
      ]_vars

(* C2, amended. A row that the ignore filter does not drop, with the       *)
(* expected column count and a parseable date, produces an output record   *)
(* if and only if cutoff_date <= row date <= effective_date and its amount *)
(* resolves without error; it is counted as valid in every case, and       *)
(* outside the window it produces no record, adds 1 to valid and to        *)
(* skipped (valid - processed) and 0 to processed, and the loop goes on.   *)
C2_DateWindow ==
    [][ (AtRow /\ DatedRow(fmt, CurRow, today)) =>
          LET inside == InsideWindow(RowDate(fmt, CurRow, today))
              resolves == credit_debit(fmt, CurRow).kind = "ok"
          IN  /\ (Len(qif') = Len(qif) + 1) <=> (inside /\ resolves)
              /\ (inside /\ resolves) =>
                    /\ processed' = processed + 1
                    /\ qif'[Len(qif')].D = RowDate(fmt, CurRow, today)
              /\ valid' = valid + 1
              /\ ~inside =>
                    /\ qif' = qif
                    /\ processed' = processed
                    /\ valid' - processed' = (valid - processed) + 1
                    /\ pc' = "loop" /\ row_i' = row_i + 1
      ]_vars

\* a completed run over a row dated the day before cutoff_date and a row
\* dated effective_date: one record, one row skipped
C2_Witness ==
    /\ pc = "idle" /\ runs >= 1
    /\ Len(csv_rows) = 2
    /\ \A i \in 1..2 : DatedRow(fmt, csv_rows[i], today)
    /\ \E i, j \in 1..2 :
          /\ DateOrd(RowDate(fmt, csv_rows[i], today)) = DateOrd(cutoff_date) - 1
          /\ RowDate(fmt, csv_rows[j], today) = today
    /\ stats.valid = 2 /\ stats.processed = 1 /\ stats.skipped = 1
    /\ Len(qif_text) = 1 /\ qif_text[1].D = today

(* C3. Sign law with a credit pattern: when the descriptor has a           *)
(* credit_regexp, credit_debit returns |raw debit amount| if the credit    *)
(* field matches it and -|raw debit amount| if it does not, whatever       *)
(* debit_is_negative, the columns and the content of the credit field are. *)
C3_PatternSignLaw ==
    (ret # <<>> /\ fmt.credit_regexp # <<>> /\ DebitParses(fmt, call[1])) =>
        /\ ret[1].kind = "ok"
        /\ ret[1].value =
              IF re_match(fmt.credit_regexp, Field(call[1], fmt.credit_col))
              THEN Abs(RawDebit(fmt, call[1]))
              ELSE -Abs(RawDebit(fmt, call[1]))

\* a negative raw amount whose credit field matches, with debit_is_negative
\* false and distinct columns
C3_Witness ==
    /\ ret # <<>>
    /\ fmt.credit_regexp # <<>>
    /\ ~fmt.debit_is_negative
    /\ fmt.debit_col # fmt.credit_col
    /\ re_match(fmt.credit_regexp, Field(call[1], fmt.credit_col))
    /\ RawDebit(fmt, call[1]) = -500
    /\ ret[1] = Returns(500)

(* C4, as stated, on the calls from which no TypeError escapes. Blank      *)
(* debit rule: when the debit field is empty or only spaces, the amount    *)
(* credit_debit resolves is 0 and no error is raised, whatever the credit  *)
(* field holds and whichever sign rule applies.                            *)
C4_AsStated ==
    (ret # <<>> /\ DebitText(fmt, call[1]) = <<>> /\ ret[1].kind # "TypeError")
        => ret[1] = Returns(0)

(* C4, amended. When the debit field is empty or only spaces, the debit    *)
(* amount is 0 and the debit field raises no amount-parse error; the       *)
(* amount credit_debit returns is 0 unless rule d applies (no credit       *)
(* pattern, distinct debit and credit columns, credit column not the payee *)
(* column, credit field not empty) with a numeric credit value, and then   *)
(* it is |credit value|.                                                   *)
C4_BlankDebit ==
    (ret # <<>> /\ DebitText(fmt, call[1]) = <<>>) =>
        /\ ret[1].kind # "MQException"
        /\ ~RuleD(fmt, call[1]) => ret[1] = Returns(0)
        /\ (RuleD(fmt, call[1]) /\ CreditValue(fmt, call[1]).ok) =>
              ret[1] = Returns(Abs(CreditValue(fmt, call[1]).val))

\* a debit field of one space resolved under the credit pattern rule
C4_Witness ==
    /\ ret # <<>>
    /\ Field(call[1], fmt.debit_col) = Txt_Space
    /\ fmt.credit_regexp # <<>>
    /\ ret[1] = Returns(0)

(* C5, as stated. Fatal amount error: every row with the expected column   *)
(* count, a parseable date and a debit field that is non-numeric after     *)
(* space-stripping makes the run raise MQException at that row (the amount *)
(* of every valid row is resolved before the date-window filter).          *)
C5_AsStated ==
    [][ (AtRow /\ DatedRow(fmt, CurRow, today) /\ NonNumericDebit(fmt, CurRow))
          => (pc' = "raised" /\ err'.kind = "MQException")
      ]_vars

(* C5, amended. Every row that the ignore filter does not drop, with the   *)
(* expected column count, a parseable date inside the date window and a    *)
(* debit field that is non-numeric after space-stripping makes the run     *)
(* raise MQException, carrying the hex codes of the debit text, at that    *)
(* row; nothing is emitted or stored for it and no row after it is         *)
(* classified, counted or emitted. The amount is resolved after the        *)
(* date-window filter: such a row outside the window is counted as valid   *)
(* and skipped, and the loop goes on.                                      *)
C5_FatalAmountError ==
    [][ /\ pc = "raised" => UNCHANGED vars
        /\ (AtRow /\ DatedRow(fmt, CurRow, today) /\ NonNumericDebit(fmt, CurRow))
             => IF InsideWindow(RowDate(fmt, CurRow, today))
                THEN /\ pc' = "raised"
                     /\ err' = Raises("MQException", HexJoin(DebitText(fmt, CurRow)))
                     /\ UNCHANGED <<row_i, processed, balance, qif, qif_text,
                                    stats, runs>>
                ELSE /\ pc' = "loop" /\ row_i' = row_i + 1
                     /\ valid' = valid + 1
                     /\ UNCHANGED <<processed, balance, qif, err>>
      ]_vars

\* the run has raised MQException at its first row, and a row follows it
C5_Witness ==
    /\ pc = "raised"
    /\ err.kind = "MQException"
    /\ row_i = 0 /\ Len(csv_rows) = 2
    /\ NonNumericDebit(fmt, CurRow)
    /\ InsideWindow(RowDate(fmt, CurRow, today))

(* C6. Tolerated anomalies are never raised: for every descriptor, with or *)
(* without an ignore pattern, an empty row, a row whose field count is not *)
(* ncols and a row whose date does not parse each only increment a counter *)
(* (empty, ncols_mismatch, empty), and the loop goes on to the next row.   *)
C6_ToleratedAnomalies ==
    [][ (AtRow /\ ~Dropped(fmt, CurRow)) =>
          /\ Len(CurRow) = 0 =>
                (pc' = "loop" /\ row_i' = row_i + 1 /\ empty' = empty + 1)
          /\ (Len(CurRow) # 0 /\ Len(CurRow) # fmt.ncols) =>
                /\ pc' = "loop" /\ row_i' = row_i + 1
                /\ ncols_mismatch' = ncols_mismatch + 1
          /\ (Len(CurRow) = fmt.ncols
                /\ RowDate(fmt, CurRow, today) = NoDate) =>
                (pc' = "loop" /\ row_i' = row_i + 1 /\ empty' = empty + 1)
      ]_vars

(* C7. Idempotence: a second conversion run of the same instance on the    *)
(* same rows and dates stores the QIF text and the statistics the first    *)
(* run stored; nothing of the first run is carried into the second.        *)
C7_Idempotence ==
    [][ (pc = "loop" /\ pc' = "idle" /\ runs >= 1) =>
          (stats' = stats /\ qif_text' = qif_text /\ csv_rows' = file_rows)
      ]_vars

\* a second run has completed over rows that gave a record, a balance and
\* an empty-row count
C7_Witness ==
    /\ pc = "idle" /\ runs = 2
    /\ stats.processed >= 1 /\ stats.balance # 0
    /\ stats.empty + stats.ncols_mismatch >= 1
    /\ Len(qif_text) = stats.processed

(* C8. Year inference: when the parsed date has the year 1900, str2date    *)
(* returns its month and day with the reference year if its month <= the   *)
(* reference month, and with the reference year - 1 otherwise (reference   *)
(* 2024-03-15 and 10-04 give 2023-04-10); a date parsed with another year  *)
(* keeps it.                                                               *)
C8_YearInference ==
    ret # <<>> =>
        LET now == call[1].now
            date == strptime(call[1].date_str, fmt.date_format)
        IN  /\ (date.ok /\ date.year = 1900 /\ date.month <= now.month) =>
                  ret[1] = D(now.year, date.month, date.day)
            /\ (date.ok /\ date.year = 1900 /\ date.month > now.month) =>
                  ret[1] = D(now.year - 1, date.month, date.day)
            /\ (date.ok /\ date.year # 1900) =>
                  ret[1] = D(date.year, date.month, date.day)
            /\ (fmt.date_format = FmtDM /\ call[1].date_str = Date_10_04
                  /\ now = D(2024, 3, 15)) => ret[1] = D(2023, 4, 10)

\* a date without a year, in the reference month, resolved to the
\* reference year
C8_Witness ==
    /\ ret # <<>>
    /\ fmt.date_format = FmtDM
    /\ call[1].date_str = Date_10_03
    /\ call[1].now = D(2024, 3, 15)
    /\ ret[1] = D(2024, 3, 10)

(* C9. Zero-credit rule: with no credit pattern, distinct debit and credit *)
(* columns and a credit column that is not the payee column, a non-empty   *)
(* credit field gives |credit value| when that value is not zero, and the  *)
(* fallback rule on the debit amount (-amount if amount > 0, else amount)  *)
(* when it is zero.                                                        *)
C9_ZeroCredit ==
    (/\ ret # <<>>
     /\ RuleD(fmt, call[1])
     /\ DebitParses(fmt, call[1])
     /\ CreditValue(fmt, call[1]).ok) =>
        LET amount == RawDebit(fmt, call[1])
            credit == CreditValue(fmt, call[1]).val
        IN  ret[1] = Returns(IF credit # 0 THEN Abs(credit)
                             ELSE IF amount > 0 THEN -amount ELSE amount)

\* a credit field of "0" beside a positive debit amount
C9_Witness ==
    /\ ret # <<>>
    /\ RuleD(fmt, call[1])
    /\ Field(call[1], fmt.credit_col) = Txt_0
    /\ RawDebit(fmt, call[1]) = 500
    /\ ret[1] = Returns(-500)

(* C10. Single fatal error kind: every numeric parse failure in            *)
(* credit_debit, in the debit field or in the credit value of rule d, is   *)
(* raised as MQException carrying the hex codes of the offending text, and *)
(* no error of another kind escapes credit_debit for a row with the        *)
(* expected column count.                                                  *)
C10_SingleErrorKind ==
    (ret # <<>> /\ Len(call[1]) = fmt.ncols) =>
        /\ ret[1].kind \in {"ok", "MQException"}
        /\ NonNumericDebit(fmt, call[1]) =>
              ret[1] = Raises("MQException", HexJoin(DebitText(fmt, call[1])))
        /\ (DebitParses(fmt, call[1]) /\ RuleD(fmt, call[1])
              /\ ~CreditValue(fmt, call[1]).ok) =>
              ret[1].kind = "MQException"

\* the row gives a block: it is not dropped, malformed, mismatched or
\* outside the window, and its amount resolves
AcceptedRow(f, row) ==
    /\ DatedRow(f, row, today)
    /\ InsideWindow(RowDate(f, row, today))
    /\ credit_debit(f, row).kind = "ok"

\* the blocks of the accepted rows, in input order
RECURSIVE ExpectedBlocks(_, _)
ExpectedBlocks(f, rows) ==
    IF rows = <<>> THEN <<>>
    ELSE (IF AcceptedRow(f, Head(rows))
          THEN << [type |-> f.type,
                   D |-> RowDate(f, Head(rows), today),
                   T |-> credit_debit(f, Head(rows)).value,
                   P |-> CollapseSpaces(Field(Head(rows), f.payee_col))] >>
          ELSE <<>>) \o ExpectedBlocks(f, Tail(rows))

RECURSIVE SumT(_)
SumT(blocks) == IF blocks = <<>> THEN 0 ELSE Head(blocks).T + SumT(Tail(blocks))

(* C11. Output/statistics consistency: once a conversion run has           *)
(* completed, the QIF text holds stats.processed blocks, one for each row  *)
(* that was not dropped, malformed, mismatched or outside the window, in   *)
(* the order of those rows in the input, and stats.balance is the sum of   *)
(* the amounts of exactly those blocks.                                    *)
C11_OutputMatchesStats ==
    stats # NoStats =>
        /\ Len(qif_text) = stats.processed
        /\ qif_text = ExpectedBlocks(fmt, csv_rows)
        /\ stats.balance = SumT(qif_text)

\* a completed run that emitted two blocks of different amounts
C11_Witness ==
    /\ pc = "idle" /\ runs >= 1
    /\ stats.processed = 2
    /\ Len(qif_text) = 2
    /\ qif_text[1].T # qif_text[2].T
    /\ qif_text[1].T = credit_debit(fmt, csv_rows[1]).value
    /\ stats.balance = qif_text[1].T + qif_text[2].T

\* process_fis has exited on the error of institution k: nothing was
\* written, shown or deleted for k, and its instance holds the text and
\* stats it held before k's conversion began
AbortedAt(k) ==
    /\ err.kind = "MQException"
    /\ \A n \in Names : fis.files[n].job < k
    /\ Len(fis.shown) = k - 1
    /\ \A i \in 1..Len(fis.shown) : fis.shown[i].job = i
    /\ k \notin fis.deleted
    /\ stats = fis.insts[fis.jobs[k].name].stats
    /\ qif_text = fis.insts[fis.jobs[k].name].qif_text

Aborted == fis.phase = "exited" => AbortedAt(fis.k)

(* C12. Batch abort on the fatal error: when the conversion of institution *)
(* k raises MQException, process_fis exits; no QIF output is written and   *)
(* no statistics are recorded or shown for k, not even for the rows before *)
(* the bad row; no institution after k is converted or written; and the    *)
(* outputs written for the institutions before k are left as they were     *)
(* (a file changes only when a conversion has completed).                  *)
C12_BatchAbort ==
    [][ /\ (fis.phase = "converting" /\ pc = "raised"
              /\ err.kind = "MQException") =>
                 /\ fis'.phase = "exited"
                 /\ fis'.k = fis.k
                 /\ fis'.files = fis.files /\ fis'.shown = fis.shown
        /\ fis.phase = "exited" => UNCHANGED vars
        /\ fis'.files # fis.files => (fis.phase = "converting" /\ pc = "idle")
        /\ (fis.phase = "converting" /\ pc = "loop" /\ pc' = "raised") =>
              (stats' = stats /\ qif_text' = qif_text)
        /\ Aborted'
      ]_vars

\* the second of three institutions has raised after one processed row:
\* the first institution's file is written, the third is not converted
C12_Witness ==
    /\ fis.phase = "exited"
    /\ fis.k = 2 /\ Len(fis.jobs) = 3
    /\ row_i = 1 /\ processed = 1
    /\ fis.files[fis.jobs[1].name] =
          [job |-> 1, text |-> ExpectedBlocks(Institutions[fis.jobs[1].name],
                                              fis.jobs[1].file)]
    /\ fis.jobs[3].name # fis.jobs[1].name
    /\ fis.files[fis.jobs[3].name].job = 0

====
